---- MODULE Spec2Model ----
(***************************************************************************)
(* Model of the Rossmann sales-forecast service: the Flask handler         *)
(* rossmann_predict (src/api/handler.py) and the Rossmann pipeline         *)
(* (src/api/rossmann/Rossmann.py): _data_cleaning, _feature_engineering,   *)
(* _data_preparation, the feature selection of preprocess, get_prediction. *)
(*                                                                         *)
(* Encodings.                                                              *)
(*  - A DataFrame is [columns, index, rows]: the ordered column labels,    *)
(*    the index labels (pandas keeps the labels of the rows a boolean mask *)
(*    selects) and one record per row, from column label to value.         *)
(*  - A nullable cell is a sequence: <<>> is NaN/None, <<v>> is v.         *)
(*  - A float is [n, d], the rational n/d; astype(int) truncates it.       *)
(*  - A datetime is its proleptic Gregorian ordinal (day 1 = 0001-01-01).  *)
(*  - A Python string that is searched with `in` is a sequence of          *)
(*    one-character strings.                                               *)
(*  - The fitted scalers, the model, numpy's sin/cos/expm1 are opaque:     *)
(*    an application is the tuple of the function's name and arguments.    *)
(***************************************************************************)
EXTENDS Integers, Sequences, FiniteSets, TLC

VARIABLES
    pc,                  \* position of the request handler
    df_raw,              \* the DataFrame built from the request's JSON
    df,                  \* the frame the pipeline stages hand on
    raised,              \* the exception that ended the pipeline, or NoException
    response,            \* what rossmann_predict returned: [status, body]
    model,               \* Rossmann.model
    scalers,             \* the four fitted scalers of the Rossmann instance
    store_type_encoder,  \* Rossmann.store_type_encoder (classes_ of a LabelEncoder)
    features_selected    \* Rossmann.features_selected

vars == <<pc, df_raw, df, raised, response, model, scalers, store_type_encoder,
          features_selected>>

shared == <<model, scalers, store_type_encoder, features_selected>>

(***************************************************************************)
(* Bounds of the model.                                                    *)
(***************************************************************************)
MaxRows == 3

BaseYear == 2014

YearSpan == 2

(***************************************************************************)
(* Values.                                                                 *)
(***************************************************************************)
NaN == <<>>

Some(v) == <<v>>

Float(n, d) == [n |-> n, d |-> d]

FloatOf(i) == Float(i, 1)

\* a conversion that rounds to the nearest integer (np.rint before the cast)
AsInt_Round(f) == (2 * f.n + f.d) \div (2 * f.d)

\* a conversion that takes the floor (np.floor before the cast, or // 30)
AsInt_Floor(f) == f.n \div f.d

\* astype(int) of a float: numpy truncates toward zero.
AsInt(f) ==
    IF f.n >= 0 THEN f.n \div f.d ELSE -((-f.n) \div f.d)

\* Series.fillna(value): a missing cell takes the fill value, a present one stays.
FillNa(cell, fill) == IF cell = NaN THEN fill ELSE cell[1]

\* str of a Python string held as a sequence of characters
CharsJanAprJulOct ==
    <<"J","a","n",",","A","p","r",",","J","u","l",",","O","c","t">>

CharsFebMayAugNov ==
    <<"F","e","b",",","M","a","y",",","A","u","g",",","N","o","v">>

CharsMarJunSeptDec ==
    <<"M","a","r",",","J","u","n",",","S","e","p","t",",","D","e","c">>

CharsNone == <<"n","o","n","e">>

\* Python's `sub in s` for strings
IsSubstring(sub, s) ==
    \E i \in 0..(Len(s) - Len(sub)) :
        \A j \in 1..Len(sub) : s[i + j] = sub[j]

(***************************************************************************)
(* Calendar arithmetic of datetime64 / Timestamp.                          *)
(***************************************************************************)
IsLeap(y) == (y % 4 = 0 /\ y % 100 # 0) \/ y % 400 = 0

DaysInMonth(y, m) ==
    IF m = 2 THEN (IF IsLeap(y) THEN 29 ELSE 28)
    ELSE IF m \in {4, 6, 9, 11} THEN 30 ELSE 31

DaysBeforeMonth(y, m) ==
    <<0, 31, 59, 90, 120, 151, 181, 212, 243, 273, 304, 334>>[m]
        + (IF m > 2 /\ IsLeap(y) THEN 1 ELSE 0)

DaysBeforeYear(y) ==
    LET p == y - 1 IN p * 365 + p \div 4 - p \div 100 + p \div 400

\* pd.to_datetime of a year-month-day: the day's ordinal
Ordinal(y, m, d) == DaysBeforeYear(y) + DaysBeforeMonth(y, m) + d

\* Series.dt.year
YearOf(ord) ==
    LET est == (ord * 400) \div 146097 + 1
    IN  CHOOSE y \in (est - 1)..(est + 1) :
            DaysBeforeYear(y) < ord /\ ord <= DaysBeforeYear(y + 1)

DayOfYear(ord) == ord - DaysBeforeYear(YearOf(ord))

\* Series.dt.month
MonthOf(ord) ==
    LET y == YearOf(ord)
        n == DayOfYear(ord)
    IN  CHOOSE m \in 1..12 :
            DaysBeforeMonth(y, m) < n /\ n <= DaysBeforeMonth(y, m) + DaysInMonth(y, m)

\* Series.dt.day
DayOf(ord) == DayOfYear(ord) - DaysBeforeMonth(YearOf(ord), MonthOf(ord))

\* datetime.weekday(): 0 is Monday
Weekday(ord) == (ord + 6) % 7

\* number of ISO weeks of a year: 53 when 1 January is a Thursday, or a
\* Wednesday in a leap year
IsoWeeksInYear(y) ==
    LET w == Weekday(Ordinal(y, 1, 1))
    IN  IF w = 3 \/ (w = 2 /\ IsLeap(y)) THEN 53 ELSE 52

\* Series.dt.isocalendar().week
IsoWeek(ord) ==
    LET y == YearOf(ord)
        w == (DayOfYear(ord) - (Weekday(ord) + 1) + 10) \div 7
    IN  IF w < 1 THEN IsoWeeksInYear(y - 1)
        ELSE IF w > IsoWeeksInYear(y) THEN 1
        ELSE w

(***************************************************************************)
(* DataFrames.                                                             *)
(***************************************************************************)
\* the columns of the request's records: test.csv merged with store.csv
RawColumns ==
    <<"Store", "DayOfWeek", "Date", "Open", "Promo", "StateHoliday",
      "SchoolHoliday", "StoreType", "Assortment", "CompetitionDistance",
      "CompetitionOpenSinceMonth", "CompetitionOpenSinceYear", "Promo2",
      "Promo2SinceWeek", "Promo2SinceYear", "PromoInterval">>

Range(s) == {s[i] : i \in 1..Len(s)}

\* pd.DataFrame(list of records): a RangeIndex 0..n-1 over the records
DataFrame(records) ==
    [columns |-> RawColumns,
     index   |-> [i \in 1..Len(records) |-> i - 1],
     rows    |-> records,
     StateHolidayCategories |-> <<>>]

EmptyFrame == DataFrame(<<>>)

\* the positions a boolean mask keeps, in order
RECURSIVE Kept(_, _)
Kept(mask, i) ==
    IF i > Len(mask) THEN <<>>
    ELSE (IF mask[i] THEN <<i>> ELSE <<>>) \o Kept(mask, i + 1)

\* df[mask]: the rows the mask selects, with their index labels, in order
Take(frame, positions) ==
    [frame EXCEPT !.index = [k \in 1..Len(positions) |-> frame.index[positions[k]]],
                  !.rows  = [k \in 1..Len(positions) |-> frame.rows[positions[k]]]]

\* df[col] = values, one value per row; a new label goes to the end of the
\* columns
Assign(frame, col, values) ==
    [frame EXCEPT
        !.columns = IF col \in Range(frame.columns) THEN @ ELSE Append(@, col),
        !.rows = [k \in 1..Len(frame.rows) |->
                    [c \in DOMAIN frame.rows[k] \cup {col} |->
                        IF c = col THEN values[k] ELSE frame.rows[k][c]]]]

\* a row with the cells of `new` set
Extend(r, new) ==
    [c \in DOMAIN r \cup DOMAIN new |-> IF c \in DOMAIN new THEN new[c] ELSE r[c]]

\* several assignments df[label] = ... in a row: the new labels go to the end
\* of the columns in the order of the assignments
AddColumns(frame, labels, rows) ==
    [frame EXCEPT
        !.columns = frame.columns
                        \o SelectSeq(labels, LAMBDA c : c \notin Range(frame.columns)),
        !.rows = rows]

\* df.drop(columns=...)
Drop(frame, cols) ==
    [frame EXCEPT
        !.columns = SelectSeq(@, LAMBDA c : c \notin cols),
        !.rows = [k \in 1..Len(frame.rows) |->
                    [c \in DOMAIN frame.rows[k] \ cols |-> frame.rows[k][c]]]]

Ok(frame) == [ok |-> TRUE, df |-> frame]

Raise(type, line) == [ok |-> FALSE, exc |-> [type |-> type, line |-> line]]

NoException == [type |-> "none", line |-> 0]

(***************************************************************************)
(* Rossmann._data_cleaning                                                 *)
(***************************************************************************)
\* df[df['Open'] != 0]: a missing Open passes the mask
FilterOpen_NotClosed(frame) ==
    Take(frame, Kept([k \in 1..Len(frame.rows) |-> frame.rows[k].Open # Some(0)], 1))

\* df[df['Open'] == 1]: a missing Open compares unequal
FilterOpen(frame) ==
    Take(frame, Kept([k \in 1..Len(frame.rows) |-> frame.rows[k].Open = Some(1)], 1))

CompetitionDistanceFill == 200000

\* the order astype('category') gives the codes it finds: sorted
CodeOrder == <<"0", "a", "b", "c", "d", "x">>

RenameStateHoliday(code) ==
    CASE code = "a" -> "public"
      [] code = "b" -> "easter"
      [] code = "c" -> "christmas"
      [] code = "0" -> "none"
      [] OTHER -> code

RenameAssortment(code) ==
    CASE code = "a" -> "basic"
      [] code = "b" -> "extra"
      [] code = "c" -> "extended"
      [] OTHER -> code

AssortmentCategories == <<"basic", "extra", "extended">>

\* pd.Categorical(values, categories=[...]): a value outside them becomes NaN
AsCategorical(label, categories) ==
    IF label \in Range(categories) THEN Some(label) ELSE NaN

\* the categories astype('category') infers from the batch, renamed in place
StateHolidayCategoriesOf(frame) ==
    LET present == {frame.rows[k].StateHoliday : k \in 1..Len(frame.rows)}
        codes   == SelectSeq(CodeOrder, LAMBDA c : c \in present)
    IN  [i \in 1..Len(codes) |-> RenameStateHoliday(codes[i])]

CleanRow(r) ==
    LET date == Ordinal(r.Date[1], r.Date[2], r.Date[3])
    IN  [r EXCEPT
            !.Date = date,
            !.CompetitionDistance = AsInt(FillNa(@, FloatOf(CompetitionDistanceFill))),
            !.CompetitionOpenSinceYear = AsInt(FillNa(@, FloatOf(YearOf(date)))),
            !.CompetitionOpenSinceMonth = AsInt(FillNa(@, FloatOf(MonthOf(date)))),
            !.Promo2SinceWeek = AsInt(FillNa(@, FloatOf(IsoWeek(date)))),
            !.Promo2SinceYear = AsInt(FillNa(@, FloatOf(YearOf(date)))),
            !.PromoInterval = FillNa(@, CharsNone),
            !.Promo = (@ # 0),
            !.Promo2 = (@ # 0),
            !.SchoolHoliday = (@ # 0),
            !.StateHoliday = RenameStateHoliday(@),
            !.Assortment = AsCategorical(RenameAssortment(@), AssortmentCategories)]

_data_cleaning(frame) ==
    LET open == FilterOpen(frame)
    IN  Ok([open EXCEPT
                !.rows = [k \in 1..Len(open.rows) |-> CleanRow(open.rows[k])],
                !.StateHolidayCategories = StateHolidayCategoriesOf(open)])

(***************************************************************************)
(* Rossmann._feature_engineering                                           *)
(***************************************************************************)
\* pd.to_datetime(str(year) + '-' + str(month) + '-01')
CompetitionSince(r) ==
    Ordinal(r.CompetitionOpenSinceYear, r.CompetitionOpenSinceMonth, 1)

\* ((Date - CompetitionSince).dt.days / 30).astype(int)
CompetitionTimeMonth(r) == AsInt(Float(r.Date - CompetitionSince(r), 30))

\* strptime's day of the year for (%Y, %W, %w): week 0 holds the days before
\* the year's first Monday; weekday 0 is Monday
CalcJulianFromW(year, week_of_year, day_of_week) ==
    LET first_weekday == Weekday(Ordinal(year, 1, 1))
        week_0_length == (7 - first_weekday) % 7
    IN  IF week_of_year = 0
        THEN 1 + day_of_week - first_weekday
        ELSE 1 + week_0_length + 7 * (week_of_year - 1) + day_of_week

\* pd.to_datetime(str(year) + '-' + str(week) + '-1', format='%Y-%W-%w')
\*     - pd.to_timedelta(7, unit='d')
PromoSince(r) ==
    Ordinal(r.Promo2SinceYear, 1, 1)
        + CalcJulianFromW(r.Promo2SinceYear, r.Promo2SinceWeek, 0) - 1 - 7

\* ((Date - PromoSince) / np.timedelta64(1, 'W')).astype(int)
PromoTimeWeek(r) == AsInt(Float(r.Date - PromoSince(r), 7))

month_map ==
    <<  <<"J","a","n">>, <<"F","e","b">>, <<"M","a","r">>, <<"A","p","r">>,
        <<"M","a","y">>, <<"J","u","n">>, <<"J","u","l">>, <<"A","u","g">>,
        <<"S","e","p">>, <<"O","c","t">>, <<"N","o","v">>, <<"D","e","c">>  >>

\* lines 158-174, row by row: the date parts, the two ages, the month's name
DateFeaturesRow(r) ==
    Extend(r, [Year                 |-> YearOf(r.Date),
               Month                |-> MonthOf(r.Date),
               Day                  |-> DayOf(r.Date),
               WeekOfYear           |-> IsoWeek(r.Date),
               CompetitionSince     |-> CompetitionSince(r),
               CompetitionTimeMonth |-> CompetitionTimeMonth(r),
               PromoSince           |-> PromoSince(r),
               PromoTimeWeek        |-> PromoTimeWeek(r),
               MonthMap             |-> month_map[MonthOf(r.Date)]])

DateFeatures(frame) ==
    AddColumns(frame,
               <<"Year", "Month", "Day", "WeekOfYear", "CompetitionSince",
                 "CompetitionTimeMonth", "PromoSince", "PromoTimeWeek", "MonthMap">>,
               [k \in DOMAIN frame.rows |-> DateFeaturesRow(frame.rows[k])])

\* lambda x: 1 if x['PromoInterval'] != 'none'
\*                and x['MonthMap'] in x['PromoInterval'] else 0
IsPromo(r) ==
    IF r.PromoInterval # CharsNone /\ IsSubstring(r.MonthMap, r.PromoInterval)
    THEN 1 ELSE 0

\* df.apply(f, axis=1) on a frame without rows gives back a copy of the frame,
\* not a Series, and a frame of several columns cannot be set as one column
ApplyIsPromo(frame) ==
    IF Len(frame.rows) = 0
    THEN Raise("ValueError", 175)
    ELSE Ok(Assign(frame, "IsPromo",
                   [k \in DOMAIN frame.rows |-> IsPromo(frame.rows[k])]))

\* line 178
DropAuxiliary(result) ==
    IF ~result.ok THEN result
    ELSE Ok(Drop(result.df, {"MonthMap", "PromoInterval", "CompetitionSince",
                             "PromoSince"}))

_feature_engineering(frame) == DropAuxiliary(ApplyIsPromo(DateFeatures(frame)))

(***************************************************************************)
(* Rossmann._data_preparation                                              *)
(***************************************************************************)
\* scaler.transform of one value: the fitted scaler is opaque
Transform(scaler, x) == <<"transform", scaler, x>>

RescaleRow(r, sc) ==
    [r EXCEPT
        !.CompetitionDistance = Transform(sc.competition_distance_scaler, @),
        !.CompetitionTimeMonth = Transform(sc.competition_time_month_scaler, @),
        !.PromoTimeWeek = Transform(sc.promo_time_week_scaler, @),
        !.Year = Transform(sc.year_scaler, @),
        !.Promo2SinceYear = Transform(sc.year_scaler, @),
        !.CompetitionOpenSinceYear = Transform(sc.year_scaler, @)]

Rescale(frame, sc) ==
    [frame EXCEPT !.rows = [k \in DOMAIN frame.rows |-> RescaleRow(frame.rows[k], sc)]]

\* the label of a dummy column: prefix + '_' + category
DummyColumn(label) == "StateHoliday_" \o label

\* pd.get_dummies(df, prefix=['StateHoliday'], columns=['StateHoliday']): one
\* column per category of the column's dtype, after the other columns
RECURSIVE AddDummies(_, _, _)
AddDummies(frame, labels, i) ==
    IF i > Len(labels) THEN frame
    ELSE AddDummies(
            Assign(frame, DummyColumn(labels[i]),
                   [k \in DOMAIN frame.rows |-> frame.rows[k].StateHoliday = labels[i]]),
            labels, i + 1)

GetDummies(frame) ==
    Drop(AddDummies(frame, frame.StateHolidayCategories, 1), {"StateHoliday"})

\* LabelEncoder.transform: the position of the label in classes_; a label that
\* was not fitted raises
Position(seq, x) == CHOOSE i \in 1..Len(seq) : seq[i] = x

EncodeStoreType(frame, classes) ==
    IF \E k \in 1..Len(frame.rows) : frame.rows[k].StoreType \notin Range(classes)
    THEN Raise("ValueError", 207)
    ELSE Ok(Assign(frame, "StoreType",
                   [k \in DOMAIN frame.rows |->
                        Position(classes, frame.rows[k].StoreType) - 1]))

assortmentDict(label) ==
    CASE label = "basic" -> 1
      [] label = "extra" -> 2
      [] label = "extended" -> 3

\* Series.map(assortmentDict).astype(int): a NaN cannot be converted
EncodeAssortment(result) ==
    IF ~result.ok THEN result
    ELSE IF \E k \in 1..Len(result.df.rows) : result.df.rows[k].Assortment = NaN
    THEN Raise("ValueError", 211)
    ELSE Ok(Assign(result.df, "Assortment",
                   [k \in DOMAIN result.df.rows |->
                        assortmentDict(result.df.rows[k].Assortment[1])]))

\* np.sin(value * (2. * pi / period)), np.cos(...)
Sin(value, period) == <<"sin", value, period>>

Cos(value, period) == <<"cos", value, period>>

CyclicalRow(r) ==
    Extend(r, [DayOfWeekSin  |-> Sin(r.DayOfWeek, 7),
               DayOfWeekCos  |-> Cos(r.DayOfWeek, 7),
               MonthSin      |-> Sin(r.Month, 12),
               MonthCos      |-> Cos(r.Month, 12),
               DaySin        |-> Sin(r.Day, 30),
               DayCos        |-> Cos(r.Day, 30),
               WeekOfYearSin |-> Sin(r.WeekOfYear, 52),
               WeekOfYearCos |-> Cos(r.WeekOfYear, 52)])

Cyclical(result) ==
    IF ~result.ok THEN result
    ELSE Ok(AddColumns(result.df,
                       <<"DayOfWeekSin", "DayOfWeekCos", "MonthSin", "MonthCos",
                         "DaySin", "DayCos", "WeekOfYearSin", "WeekOfYearCos">>,
                       [k \in DOMAIN result.df.rows |-> CyclicalRow(result.df.rows[k])]))

_data_preparation(frame, sc, classes) ==
    Cyclical(EncodeAssortment(EncodeStoreType(GetDummies(Rescale(frame, sc)), classes)))

(***************************************************************************)
(* Rossmann.preprocess (lines 60-61) and Rossmann.get_prediction           *)
(***************************************************************************)
\* [col for col in self.features_selected if col not in ["Date", "Sales"]]
FeaturesForModel(features) ==
    SelectSeq(features, LAMBDA c : c \notin {"Date", "Sales"})

\* df[list of labels].drop_duplicates(): equal feature rows are kept once
SelectColumns_DropDuplicates(frame, labels) ==
    IF \E i \in 1..Len(labels) : labels[i] \notin Range(frame.columns)
    THEN Raise("KeyError", 61)
    ELSE LET sel == [k \in 1..Len(frame.rows) |->
                        [c \in Range(labels) |-> frame.rows[k][c]]]
             first == [k \in 1..Len(sel) |-> \A j \in 1..(k - 1) : sel[j] # sel[k]]
         IN  Ok(Take([frame EXCEPT !.columns = labels, !.rows = sel], Kept(first, 1)))

\* df.reindex(columns=labels)-like selection that leaves out a label that is no
\* column instead of raising
SelectColumns_SkipMissing(frame, labels) ==
    LET have == SelectSeq(labels, LAMBDA c : c \in Range(frame.columns))
    IN  Ok([frame EXCEPT
                !.columns = have,
                !.rows = [k \in 1..Len(frame.rows) |->
                            [c \in Range(have) |-> frame.rows[k][c]]]])

\* df[list of labels]: the labelled columns in the list's order; a label that
\* is no column raises KeyError
SelectColumns(frame, labels) ==
    IF \E i \in 1..Len(labels) : labels[i] \notin Range(frame.columns)
    THEN Raise("KeyError", 61)
    ELSE Ok([frame EXCEPT
                !.columns = labels,
                !.rows = [k \in 1..Len(frame.rows) |->
                            [c \in Range(labels) |-> frame.rows[k][c]]]])

\* self.features_selected after a preprocess that removes "Date" and "Sales"
\* from the list itself (features_selected.remove) instead of building a new one
FeaturesAfterSelect_InPlace(features) == FeaturesForModel(features)

\* self.features_selected after preprocess: the comprehension builds a new list
FeaturesAfterSelect(features) == features

\* model.predict of one row of the feature matrix: the model is opaque
Predict(m, columns, r) == <<"predict", m, [i \in 1..Len(columns) |-> r[columns[i]]]>>

\* np.expm1
Expm1(x) == <<"expm1", x>>

\* test_data["Prediction"] = np.expm1(self.model.predict(test_data))
WithPrediction(frame, m) ==
    Assign(frame, "Prediction",
        [k \in DOMAIN frame.rows |->
            Expm1(Predict(m, frame.columns, frame.rows[k]))])

\* DataFrame.to_json(orient="records"): one object per row, in row order,
\* from column label to value; the index is not written
ToJsonRecords(frame) == [k \in 1..Len(frame.rows) |-> frame.rows[k]]

\* a stage applied to what the stage before it returned, unless that raised
ThenFeatureEngineering(result) ==
    IF result.ok THEN _feature_engineering(result.df) ELSE result

ThenDataPreparation(result, sc, classes) ==
    IF result.ok THEN _data_preparation(result.df, sc, classes) ELSE result

ThenSelectColumns(result, labels) ==
    IF result.ok THEN SelectColumns(result.df, labels) ELSE result

\* Rossmann.preprocess as a whole: the first stage that raises ends it
Preprocess(frame, features, sc, classes) ==
    ThenSelectColumns(
        ThenDataPreparation(ThenFeatureEngineering(_data_cleaning(frame)), sc, classes),
        FeaturesForModel(features))

(***************************************************************************)
(* The requests of the model.                                              *)
(***************************************************************************)
\* store 1 of the data set on 2015-07-31
BaseRow ==
    [Store |-> 1, DayOfWeek |-> 5, Date |-> <<BaseYear + 1, 7, 31>>,
     Open |-> Some(1), Promo |-> 1, StateHoliday |-> "0", SchoolHoliday |-> 1,
     StoreType |-> "c", Assortment |-> "a",
     CompetitionDistance |-> Some(Float(1270, 1)),
     CompetitionOpenSinceMonth |-> Some(FloatOf(9)),
     CompetitionOpenSinceYear |-> Some(FloatOf(BaseYear - 6)),
     Promo2 |-> 0, Promo2SinceWeek |-> NaN, Promo2SinceYear |-> NaN,
     PromoInterval |-> NaN]

\* a store in the second promotion, with a competitor that opens later
PromoRow ==
    [Store |-> 2, DayOfWeek |-> 4, Date |-> <<BaseYear + 1, 9, 17>>,
     Open |-> Some(1), Promo |-> 0, StateHoliday |-> "0", SchoolHoliday |-> 0,
     StoreType |-> "a", Assortment |-> "c",
     CompetitionDistance |-> Some(Float(5705, 10)),
     CompetitionOpenSinceMonth |-> Some(FloatOf(11)),
     CompetitionOpenSinceYear |-> Some(FloatOf(BaseYear + 1)),
     Promo2 |-> 1, Promo2SinceWeek |-> Some(FloatOf(13)),
     Promo2SinceYear |-> Some(FloatOf(BaseYear - 4)),
     PromoInterval |-> Some(CharsJanAprJulOct)]

With(r, field, v) == [r EXCEPT ![field] = v]

\* the rows a request's batch is drawn from
Rows ==
    {With(BaseRow, "Open", o) : o \in {Some(1), Some(0), NaN}}
    \cup {With(BaseRow, "StateHoliday", s) : s \in {"a", "b", "c", "x"}}
    \cup {With(With(BaseRow, "StateHoliday", "x"), "Open", Some(0))}
    \cup {With(BaseRow, "Assortment", "d")}
    \cup {With(BaseRow, "StoreType", "e")}
    \cup {PromoRow}

RECURSIVE Batches(_)
Batches(n) ==
    IF n = 0 THEN {<<>>}
    ELSE LET shorter == Batches(n - 1)
         IN  shorter \cup {Append(b, r) : b \in {s \in shorter : Len(s) = n - 1},
                                          r \in Rows}

\* request.get_json(): nothing, one record, or a list of records
Payloads ==
    {[kind |-> "null", rows |-> <<>>]}
    \cup {[kind |-> "dict", rows |-> <<r>>] : r \in Rows}
    \cup {[kind |-> "list", rows |-> b] : b \in Batches(MaxRows)}

\* `not test_json`
Falsy(payload) == payload.kind = "null" \/ Len(payload.rows) = 0

\* the days of the calendar years of the model near the ends of the months
CalendarDates ==
    {date \in {<<y, m, d>> : y \in BaseYear..(BaseYear + YearSpan), m \in 1..12,
                             d \in {1, 2, 3, 4, 15, 27, 28, 29, 30, 31}} :
        date[3] <= DaysInMonth(date[1], date[2])}

DatedRow(date) ==
    [BaseRow EXCEPT !.Date = date,
                    !.DayOfWeek = Weekday(Ordinal(date[1], date[2], date[3])) + 1]

\* one open row per date, with each group of nullable fields present or missing
CalendarRows ==
    {[DatedRow(date) EXCEPT !.CompetitionOpenSinceMonth = m,
                            !.CompetitionOpenSinceYear = y] :
        date \in CalendarDates,
        m \in {NaN, Some(FloatOf(1)), Some(FloatOf(7)), Some(FloatOf(12))},
        y \in {NaN, Some(FloatOf(BaseYear)), Some(FloatOf(BaseYear + YearSpan))}}
    \cup {[DatedRow(date) EXCEPT !.Promo2 = 1, !.Promo2SinceWeek = w,
                                 !.Promo2SinceYear = y] :
        date \in CalendarDates,
        w \in {NaN, Some(FloatOf(1)), Some(FloatOf(40))},
        y \in {NaN, Some(FloatOf(BaseYear))}}
    \cup {[DatedRow(date) EXCEPT !.CompetitionDistance = cd, !.PromoInterval = pi] :
        date \in CalendarDates,
        cd \in {NaN, Some(Float(199, 10)), Some(Float(1270, 1))},
        pi \in {NaN, Some(CharsMarJunSeptDec)}}

\* lists of selected features: the training notebook's list with the date and
\* the target, a short list, and a list that names one-hot columns
FeatureLists ==
    {<<"Store", "Promo", "StoreType", "Assortment", "CompetitionDistance",
       "CompetitionOpenSinceMonth", "CompetitionOpenSinceYear", "Promo2",
       "Promo2SinceWeek", "Promo2SinceYear", "CompetitionTimeMonth",
       "PromoTimeWeek", "DayOfWeekSin", "DayOfWeekCos", "MonthSin", "MonthCos",
       "DaySin", "DayCos", "WeekOfYearSin", "WeekOfYearCos", "Date", "Sales">>,
     <<"Store", "DayOfWeek", "Date", "IsPromo", "Year">>,
     <<"Store", "StateHoliday_none", "StateHoliday_public", "Promo">>}

(***************************************************************************)
(* handler.py: the global Rossmann instance and rossmann_predict           *)
(***************************************************************************)
NoResponse == [status |-> 0, body |-> <<>>]

\* jsonify({"error": "No data received"}), 400
NoDataReceived == [status |-> 400, body |-> <<"No data received">>]

\* an exception that leaves the view function: Flask answers 500
InternalServerError == [status |-> 500, body |-> <<>>]

Artifacts ==
    /\ model = "model_xgb_final.ubj"
    /\ scalers = [competition_distance_scaler |-> "robust_scaler_competition_distance.pkl",
                  competition_time_month_scaler |-> "robust_scaler_competition_time_month.pkl",
                  promo_time_week_scaler |-> "minmax_scaler_promo_time_week.pkl",
                  year_scaler |-> "minmax_scaler_year.pkl"]
    /\ store_type_encoder = <<"a", "b", "c", "d">>
    /\ features_selected \in FeatureLists

\* line 107 and 110: the answer for what preprocess returned
Answer(prepared, m) ==
    IF prepared.ok
    THEN [status |-> 200, body |-> ToJsonRecords(WithPrediction(prepared.df, m))]
    ELSE InternalServerError

\* lines 105-110 of rossmann_predict for a request with data
RossmannPredict(frame, m, features, sc, classes) ==
    Answer(Preprocess(frame, features, sc, classes), m)

Init ==
    /\ pc = "idle"
    /\ df_raw = EmptyFrame
    /\ df = EmptyFrame
    /\ raised = NoException
    /\ response = NoResponse
    /\ Artifacts

\* a stage of the pipeline returned or raised
Advance(result, next) ==
    IF result.ok
    THEN /\ df' = result.df
         /\ pc' = next
         /\ UNCHANGED <<raised, response>>
    ELSE /\ raised' = result.exc
         /\ response' = InternalServerError
         /\ pc' = "done"
         /\ UNCHANGED df

\* lines 94-102 and 105, 56: the request's JSON becomes df_raw; preprocess
\* works on a copy
Receive ==
    /\ pc = "idle"
    /\ \E payload \in Payloads :
        IF Falsy(payload)
        THEN /\ response' = NoDataReceived
             /\ pc' = "done"
             /\ df_raw' = EmptyFrame
             /\ df' = EmptyFrame
        ELSE /\ df_raw' = DataFrame(payload.rows)
             /\ df' = DataFrame(payload.rows)
             /\ response' = NoResponse
             /\ pc' = "data_cleaning"
    /\ raised' = NoException
    /\ UNCHANGED shared

DataCleaning ==
    /\ pc = "data_cleaning"
    /\ Advance(_data_cleaning(df), "feature_engineering")
    /\ UNCHANGED <<df_raw, shared>>

FeatureEngineering ==
    /\ pc = "feature_engineering"
    /\ Advance(_feature_engineering(df), "data_preparation")
    /\ UNCHANGED <<df_raw, shared>>

DataPreparation ==
    /\ pc = "data_preparation"
    /\ Advance(_data_preparation(df, scalers, store_type_encoder), "select")
    /\ UNCHANGED <<df_raw, shared>>

SelectFeatures ==
    /\ pc = "select"
    /\ Advance(SelectColumns(df, FeaturesForModel(features_selected)), "get_prediction")
    /\ features_selected' = FeaturesAfterSelect(features_selected)
    /\ UNCHANGED <<df_raw, model, scalers, store_type_encoder>>

GetPrediction ==
    /\ pc = "get_prediction"
    /\ df' = WithPrediction(df, model)
    /\ response' = [status |-> 200, body |-> ToJsonRecords(df')]
    /\ pc' = "done"
    /\ UNCHANGED <<df_raw, raised, shared>>

\* the view function has returned: its locals are gone, the instance stays
Return ==
    /\ pc = "done"
    /\ pc' = "idle"
    /\ df_raw' = EmptyFrame
    /\ df' = EmptyFrame
    /\ raised' = NoException
    /\ response' = NoResponse
    /\ UNCHANGED shared

Next ==
    \/ Receive
    \/ DataCleaning
    \/ FeatureEngineering
    \/ DataPreparation
    \/ SelectFeatures
    \/ GetPrediction
    \/ Return

Spec == Init /\ [][Next]_vars

\* the handler has just received one dated row
InitCalendar ==
    /\ pc = "data_cleaning"
    /\ \E r \in CalendarRows :
        /\ df_raw = DataFrame(<<r>>)
        /\ df = DataFrame(<<r>>)
    /\ raised = NoException
    /\ response = NoResponse
    /\ Artifacts

SpecCalendar == InitCalendar /\ [][Next]_vars

(***************************************************************************)
(* Properties.                                                             *)
(***************************************************************************)
\* the row of the request that a row of the working frame comes from
RawRow(k) == df_raw.rows[df.index[k] + 1]

\* the index labels of the request's rows with Open == 1, in request order
OpenLabels ==
    LET n    == Len(df_raw.rows)
        open == SelectSeq([i \in 1..n |-> i], LAMBDA i : df_raw.rows[i].Open = <<1>>)
    IN  [k \in 1..Len(open) |-> open[k] - 1]

AfterCleaning ==
    pc \in {"feature_engineering", "data_preparation", "select", "get_prediction"}

Answered == pc = "done" /\ response.status = 200

\* C1: at every stage after _data_cleaning, and in the answer of a request,
\* every row comes from a row of the request whose Open is 1; a row whose Open
\* is 0 or missing gives no record.
C1_OnlyOpenRowsAreScored ==
    (AfterCleaning \/ Answered) =>
        /\ Len(df.rows) = Len(df.index)
        /\ \A k \in 1..Len(df.index) :
            /\ df.index[k] + 1 \in 1..Len(df_raw.rows)
            /\ RawRow(k).Open = <<1>>
        /\ Answered => Len(response.body) = Len(df.rows)

C1_Witness ==
    /\ Answered
    /\ Len(response.body) = 1
    /\ Len(df_raw.rows) = 3
    /\ df_raw.rows[1].Open = <<>>
    /\ df_raw.rows[3].Open = <<0>>

\* C2: at every stage after the filter, and in the answer, there is exactly one
\* row per request row with Open == 1, in request order: the i-th record of
\* the answer is the one of the i-th open row (it carries that row's Store).
C2_OneRecordPerOpenRowInOrder ==
    (AfterCleaning \/ Answered) =>
        /\ df.index = OpenLabels
        /\ Len(df.rows) = Len(OpenLabels)
        /\ Answered =>
            /\ Len(response.body) = Len(OpenLabels)
            /\ \A k \in 1..Len(response.body) :
                /\ "Prediction" \in DOMAIN response.body[k]
                /\ "Store" \in DOMAIN response.body[k] =>
                        response.body[k].Store = RawRow(k).Store

C2_Witness ==
    /\ Answered
    /\ Len(df_raw.rows) = 3
    /\ df_raw.rows[2].Open = <<0>>
    /\ df_raw.rows[1].Store # df_raw.rows[3].Store
    /\ Len(response.body) = 2

\* C3 (as claimed): every record of the answer has the fields Store, DayOfWeek,
\* Date and Prediction, the first three with the values of its request row.
C3_RecordsCarryStoreDayOfWeekDate ==
    Answered =>
        \A k \in 1..Len(response.body) :
            /\ {"Store", "DayOfWeek", "Date", "Prediction"} \subseteq DOMAIN response.body[k]
            /\ response.body[k].Store = RawRow(k).Store
            /\ response.body[k].DayOfWeek = RawRow(k).DayOfWeek
            /\ response.body[k].Date = RawRow(k).Date

StateHolidayCodes == {"a", "b", "c", "0"}

AssortmentCodes == {"a", "b", "c"}

HasUnknownCode ==
    \E i \in 1..Len(df_raw.rows) :
        /\ df_raw.rows[i].Open = <<1>>
        /\ \/ df_raw.rows[i].StateHoliday \notin StateHolidayCodes
           \/ df_raw.rows[i].Assortment \notin AssortmentCodes

\* C4 (as claimed): a request with an open row whose StateHoliday or
\* Assortment code is outside the dictionaries ends in an error, with no output.
C4_UnknownCodeIsAnError ==
    (pc = "done" /\ HasUnknownCode) =>
        /\ response.status = 500
        /\ raised # NoException

\* C5 (as claimed): a non-empty request without any open row is answered with
\* an empty list of records, not with an error.
C5_AllClosedBatchGivesEmptyResult ==
    (pc = "done" /\ Len(df_raw.rows) > 0 /\ Len(OpenLabels) = 0) =>
        /\ response.status = 200
        /\ response.body = <<>>

\* C6: the step that selects the features either hands on a frame whose
\* columns are exactly the names of features_selected without Date and Sales,
\* in that order, every row holding exactly these columns with the values it
\* had, or, when one of the names is no column of the encoded frame, ends the
\* request with a KeyError and no frame.
C6_SelectionIsStrictProjection ==
    [][pc = "select" =>
        LET want == SelectSeq(features_selected, LAMBDA c : c # "Date" /\ c # "Sales")
        IN  IF \A i \in 1..Len(want) : want[i] \in Range(df.columns)
            THEN /\ pc' = "get_prediction"
                 /\ df'.columns = want
                 /\ Len(df'.rows) = Len(df.rows)
                 /\ \A k \in 1..Len(df.rows) :
                        /\ DOMAIN df'.rows[k] = Range(want)
                        /\ \A c \in Range(want) : df'.rows[k][c] = df.rows[k][c]
            ELSE /\ pc' = "done"
                 /\ raised'.type = "KeyError"
                 /\ response'.status = 500
                 /\ response'.body = <<>>]_vars

C6_Witness ==
    /\ pc = "done"
    /\ raised = [type |-> "KeyError", line |-> 61]
    /\ Len(df.rows) > 0
    /\ "StateHoliday_none" \in Range(df.columns)
    /\ "StateHoliday_public" \notin Range(df.columns)

CanonicalLabels == {"public", "easter", "christmas", "none"}

\* C7 (as claimed): the frame that _data_preparation hands on has a
\* StateHoliday_<label> column for each canonical label, whichever labels the
\* rows of the batch carry.
C7_OneHotColumnsAreStable ==
    pc = "select" =>
        \A label \in CanonicalLabels : ("StateHoliday_" \o label) \in Range(df.columns)

\* the ISO week of a date: the week of the year of the date's Thursday
IsoWeekByThursday(date) ==
    LET day      == Ordinal(date[1], date[2], date[3])
        thursday == day - Weekday(day) + 3
    IN  (DayOfYear(thursday) - 1) \div 7 + 1

\* the integer a non-negative float truncates to
IsTruncationOf(v, f) == v * f.d <= f.n /\ f.n < (v + 1) * f.d

\* C8: in the frame _data_cleaning hands on, for every row: a missing
\* CompetitionDistance is 200000, a missing CompetitionOpenSinceMonth / Year is
\* the month / year of the row's Date, a missing Promo2SinceWeek / Year is the
\* ISO week / the year of the row's Date, a missing PromoInterval is "none";
\* a present field keeps its value, CompetitionDistance truncated to an integer.
C8_ImputationDefaults ==
    pc = "feature_engineering" =>
        \A k \in 1..Len(df.rows) :
            LET raw  == RawRow(k)
                r    == df.rows[k]
                date == raw.Date
            IN  /\ IF raw.CompetitionDistance = <<>>
                   THEN r.CompetitionDistance = 200000
                   ELSE IsTruncationOf(r.CompetitionDistance, raw.CompetitionDistance[1])
                /\ IF raw.CompetitionOpenSinceMonth = <<>>
                   THEN r.CompetitionOpenSinceMonth = date[2]
                   ELSE IsTruncationOf(r.CompetitionOpenSinceMonth,
                                       raw.CompetitionOpenSinceMonth[1])
                /\ IF raw.CompetitionOpenSinceYear = <<>>
                   THEN r.CompetitionOpenSinceYear = date[1]
                   ELSE IsTruncationOf(r.CompetitionOpenSinceYear,
                                       raw.CompetitionOpenSinceYear[1])
                /\ IF raw.Promo2SinceWeek = <<>>
                   THEN r.Promo2SinceWeek = IsoWeekByThursday(date)
                   ELSE IsTruncationOf(r.Promo2SinceWeek, raw.Promo2SinceWeek[1])
                /\ IF raw.Promo2SinceYear = <<>>
                   THEN r.Promo2SinceYear = date[1]
                   ELSE IsTruncationOf(r.Promo2SinceYear, raw.Promo2SinceYear[1])
                /\ IF raw.PromoInterval = <<>>
                   THEN r.PromoInterval = <<"n", "o", "n", "e">>
                   ELSE r.PromoInterval = raw.PromoInterval[1]

C8_Witness ==
    /\ pc = "feature_engineering"
    /\ Len(df.rows) = 1
    /\ df_raw.rows[1].Promo2SinceWeek = <<>>
    /\ df_raw.rows[1].Promo2SinceYear = <<>>
    /\ df_raw.rows[1].Date[2] = 1
    /\ df.rows[1].Promo2SinceWeek = 53
    /\ df.rows[1].Promo2SinceYear = df_raw.rows[1].Date[1]

\* C9: no step of a request, failed or not, changes the model, the scalers,
\* the store-type encoder or features_selected, and the answer of a finished
\* request is the one the instance gives for the request's batch alone.
C9_SharedStateIsReadOnly ==
    /\ [][UNCHANGED shared]_vars
    /\ []((pc = "done" /\ response.status # 400) =>
            response = RossmannPredict(df_raw, model, features_selected, scalers,
                                       store_type_encoder))

C9_Witness ==
    /\ pc = "done"
    /\ response.status = 500
    /\ raised.type = "ValueError"
    /\ Len(df_raw.rows) = MaxRows

\* the signed number of days from the first day of the competition's opening
\* month to the row's Date, in the frame _feature_engineering hands on
CompetitionDays(r) ==
    r.Date - Ordinal(r.CompetitionOpenSinceYear, r.CompetitionOpenSinceMonth, 1)

\* C10 (as claimed): CompetitionTimeMonth is floor(d / 30), also for d < 0.
C10_CompetitionTimeMonthIsFloor ==
    pc = "data_preparation" =>
        \A k \in 1..Len(df.rows) :
            df.rows[k].CompetitionTimeMonth = CompetitionDays(df.rows[k]) \div 30

\* C10 (amended): CompetitionTimeMonth is d / 30 truncated toward zero: the
\* floor of d / 30 for d >= 0, its ceiling for d < 0.
C10_CompetitionTimeMonthTruncates ==
    pc = "data_preparation" =>
        \A k \in 1..Len(df.rows) :
            LET d == CompetitionDays(df.rows[k])
                q == df.rows[k].CompetitionTimeMonth
            IN  IF d >= 0
                THEN q * 30 <= d /\ d < (q + 1) * 30
                ELSE (q - 1) * 30 < d /\ d <= q * 30

C10_Witness ==
    /\ pc = "data_preparation"
    /\ Len(df.rows) = 1
    /\ CompetitionDays(df.rows[1]) < 0
    /\ CompetitionDays(df.rows[1]) % 30 # 0
    /\ df.rows[1].CompetitionTimeMonth < 0

\* the Monday of ISO week `week` of ISO year `year`: ISO week 1 is the week
\* that holds 4 January
IsoWeekMonday(year, week) ==
    LET jan4 == Ordinal(year, 1, 4)
    IN  jan4 - Weekday(jan4) + 7 * (week - 1)

\* C11 (as claimed): in the frame _feature_engineering hands on, the PromoSince
\* date of every row (the date PromoTimeWeek counts from) is the Monday of ISO
\* week Promo2SinceWeek of year Promo2SinceYear minus 7 days; for a row whose
\* Promo2SinceWeek and Promo2SinceYear were imputed from its Date, that is the
\* Monday of the ISO week before the week of Date.
C11_PromoSinceIsIsoMondayMinusWeek ==
    pc = "data_preparation" =>
        \A k \in 1..Len(df.rows) :
            LET r     == df.rows[k]
                since == IsoWeekMonday(r.Promo2SinceYear, r.Promo2SinceWeek) - 7
            IN  /\ PromoSince(r) = since
                /\ 7 * r.PromoTimeWeek <= r.Date - since
                /\ r.Date - since < 7 * (r.PromoTimeWeek + 1)
                /\ (RawRow(k).Promo2SinceWeek = <<>> /\ RawRow(k).Promo2SinceYear = <<>>)
                        => since = r.Date - Weekday(r.Date) - 7

====
